---------------------------- MODULE Spec2Model ----------------------------
(***************************************************************************)
(* BrewMe: recipe scaling, recursive costing and batch commit              *)
(* (src/services.py) over the SQLite persistence gateway (src/db.py),      *)
(* driven by the tkinter presentation layer (src/gui.py).                  *)
(*                                                                         *)
(* Python floats and SQLite REALs are modelled as exact rationals <<n, d>> *)
(* in lowest terms with d > 0; <<0, 0>> is the float NaN, which the        *)
(* sqlite3 binding stores as NULL and reads back as None.                  *)
(***************************************************************************)
EXTENDS Integers, Sequences, FiniteSets, TLC

VARIABLES
    Ingredients,            \* table Ingredients: id -> row
    Recipes,                \* table Recipes: id -> row
    Recipe_Details,         \* table Recipe_Details: set of rows
    Batch_Log,              \* table Batch_Log: rows in id order
    current_recipe_id,      \* BreweryApp.current_recipe_id (0 is None)
    current_recipe_volume,  \* BreweryApp.current_recipe_volume
    recipe_var,             \* BreweryApp.recipe_var
    volume_entry,           \* text of BreweryApp.volume_entry
    output_cost_var,        \* BreweryApp.output_cost_var
    scaled_ingredients,     \* BreweryApp.scaled_ingredients (attr is unset until a scaling)
    inventory_listbox,      \* ids of the rows shown in BreweryApp.inventory_listbox
    commits,                \* each process's calculate_and_log_batch in flight: position and locals
    costing,                \* the calculate_recipe_cost call in flight: its frames and locals
    call,                   \* history: the last operation called, its arguments, the tables before it
    ret                     \* history: what that operation returned or raised

db == <<Ingredients, Recipes, Recipe_Details, Batch_Log>>
gui == <<current_recipe_id, current_recipe_volume, recipe_var, volume_entry,
         output_cost_var, scaled_ingredients, inventory_listbox>>
vars == <<db, gui, commits, costing, call, ret>>

-----------------------------------------------------------------------------
(* Bounds of the model *)

\* the stock an adjustment may reach
MaxStock == 12
\* batch records, under direct calls
MaxLog == 2
\* items of an ingredient list, under direct calls
MaxItems == 2
\* batch records, in the application
MaxBatches == 2

-----------------------------------------------------------------------------
(* Numbers *)

Abs(x) == IF x < 0 THEN -x ELSE x

RECURSIVE GCD(_, _)
GCD(a, b) == IF b = 0 THEN a ELSE GCD(b, a % b)

NaN == <<0, 0>>
IsNaN(x) == x[2] = 0

R(n, d) ==
    IF d = 0 THEN NaN
    ELSE LET g == GCD(Abs(n), Abs(d))
             s == IF d < 0 THEN -1 ELSE 1
         IN  <<(s * n) \div g, (s * d) \div g>>

Zero == R(0, 1)

RAdd(x, y) == IF IsNaN(x) \/ IsNaN(y) THEN NaN
              ELSE R(x[1] * y[2] + y[1] * x[2], x[2] * y[2])
RNeg(x) == <<-x[1], x[2]>>
RMul(x, y) == IF IsNaN(x) \/ IsNaN(y) THEN NaN ELSE R(x[1] * y[1], x[2] * y[2])
RDiv(x, y) == IF IsNaN(x) \/ IsNaN(y) THEN NaN ELSE R(x[1] * y[2], x[2] * y[1])
\* every comparison with NaN is false
RLt(x, y) == ~IsNaN(x) /\ ~IsNaN(y) /\ x[1] * y[2] < y[1] * x[2]
RLe(x, y) == ~IsNaN(x) /\ ~IsNaN(y) /\ x[1] * y[2] <= y[1] * x[2]

\* format(x, ".2f"): the nearest hundredth, ties to even; "nan" for NaN
Fmt2(x) ==
    IF IsNaN(x) THEN NaN
    ELSE LET n == x[1] * 100
             q == n \div x[2]
             r == n % x[2]
             up == \/ 2 * r > x[2]
                   \/ 2 * r = x[2] /\ q % 2 = 1
         IN  R(IF up THEN q + 1 ELSE q, 100)

MIN_VOLUME_BBL == R(1, 2)

\* mutant: no markup
COST_MARKUP_None == R(1, 1)

COST_MARKUP == R(115, 100)


-----------------------------------------------------------------------------
(* Seed data: a sample of models.create_initial_ingredients and            *)
(* models.create_initial_recipes, stored by db.seed_initial_data.          *)

Max(S) == CHOOSE m \in S : \A x \in S : x <= m

\* what the next INSERT gets as INTEGER PRIMARY KEY
NextId(ids) == IF ids = {} THEN 1 ELSE Max(ids) + 1

SeedIngredients ==
    (1 :> [name |-> "Magnum Hops", cost |-> R(45, 100), unit |-> "oz",
           inventory_qty |-> R(10, 1)])
 @@ (2 :> [name |-> "Cascade Hops", cost |-> R(40, 100), unit |-> "oz",
           inventory_qty |-> R(10, 1)])

SeedRecipe_Details ==
    { [recipe_id |-> 1, ingredient_id |-> 1, quantity |-> R(5, 1)],
      [recipe_id |-> 1, ingredient_id |-> 2, quantity |-> R(8, 1)],
      [recipe_id |-> 2, ingredient_id |-> 1, quantity |-> R(15, 1)] }

\* the rows of one recipe, in the order of the primary key index
RECURSIVE DetailRows(_, _)
DetailRows(details, recipe_id) ==
    LET rows == { d \in details : d.recipe_id = recipe_id }
    IN  IF rows = {} THEN <<>>
        ELSE LET first == CHOOSE d \in rows :
                              \A e \in rows : d.ingredient_id <= e.ingredient_id
             IN  <<first>> \o DetailRows(details \ {first}, recipe_id)

\* seed_initial_data: base_cost += ing_cost * qty over the recipe's ingredients
RECURSIVE SeedBaseCost(_, _)
SeedBaseCost(tbl, rows) ==
    IF rows = <<>> THEN Zero
    ELSE RAdd(RMul(tbl[Head(rows).ingredient_id].cost, Head(rows).quantity),
              SeedBaseCost(tbl, Tail(rows)))

SeedRecipes ==
    (1 :> [name |-> "American Lager", target_volume_BBL |-> R(15, 1),
           base_cost |-> SeedBaseCost(SeedIngredients, DetailRows(SeedRecipe_Details, 1))])
 @@ (2 :> [name |-> "Imperial Stout-Nitro", target_volume_BBL |-> R(15, 1),
           base_cost |-> SeedBaseCost(SeedIngredients, DetailRows(SeedRecipe_Details, 2))])

-----------------------------------------------------------------------------
(* db.py: the persistence gateway *)

\* mutant: no floor
SqlMax0_None(x) == x

\* SQL MAX(0, x): NULL when x is NULL
SqlMax0(x) == IF IsNaN(x) THEN NaN ELSE IF RLt(x, Zero) THEN Zero ELSE x

\* UPDATE Ingredients SET inventory_qty = MAX(0, inventory_qty + ?) WHERE id = ?
NewQty(inventory_qty, delta_qty) == SqlMax0(RAdd(inventory_qty, delta_qty))

\* mutant: the WHERE clause matches no row
update_inventory_qty_NoRow(tbl, ingredient_id, delta_qty) ==
    [tbl |-> tbl, rowcount |-> 0]

update_inventory_qty(tbl, ingredient_id, delta_qty) ==
    IF ingredient_id \in DOMAIN tbl
    THEN [tbl |-> [tbl EXCEPT ![ingredient_id].inventory_qty =
                                  NewQty(@, delta_qty)],
          rowcount |-> 1]
    ELSE [tbl |-> tbl, rowcount |-> 0]

\* the row log_batch inserts (date_brewed, the wall clock's text, is left out)
BatchRow(log, recipe_name, volume, final_cost) ==
    [id |-> NextId({ log[i].id : i \in 1..Len(log) }),
     recipe_name |-> recipe_name, volume_BBL |-> volume, final_cost |-> final_cost]

\* mutant: the insert replaces the table's rows
log_batch_Overwrite(log, recipe_name, volume, final_cost) ==
    [exc |-> "none", log |-> <<BatchRow(<<>>, recipe_name, volume, final_cost)>>]

\* INSERT INTO Batch_Log; volume_BBL and final_cost are REAL NOT NULL
log_batch(log, recipe_name, volume, final_cost) ==
    IF IsNaN(volume) \/ IsNaN(final_cost)
    THEN [exc |-> "sqlite3.IntegrityError", log |-> log]
    ELSE [exc |-> "none",
          log |-> Append(log, BatchRow(log, recipe_name, volume, final_cost))]

\* mutant: no UNIQUE constraint on the name
add_ingredient_NoUnique(tbl, name, cost, unit, qty) ==
    [exc |-> "none", result |-> "lastrowid",
     tbl |-> tbl @@ (NextId(DOMAIN tbl) :>
                [name |-> name, cost |-> cost, unit |-> unit,
                 inventory_qty |-> qty])]

\* INSERT INTO Ingredients (lines 95-110): name is UNIQUE, cost is REAL NOT
\* NULL (a NaN cost is bound as NULL), inventory_qty may be NULL
add_ingredient(tbl, name, cost, unit, qty) ==
    IF \E i \in DOMAIN tbl : tbl[i].name = name
    THEN [exc |-> "none", result |-> "DUPLICATE_NAME", tbl |-> tbl]
    ELSE IF IsNaN(cost)
    THEN [exc |-> "sqlite3.IntegrityError", result |-> "", tbl |-> tbl]
    ELSE [exc |-> "none", result |-> "lastrowid",
          tbl |-> tbl @@ (NextId(DOMAIN tbl) :>
                     [name |-> name, cost |-> cost, unit |-> unit,
                      inventory_qty |-> qty])]

\* mutant: the foreign key not enforced
delete_ingredient_NoRestrict(tbl, details, ingredient_id) ==
    IF ingredient_id \in DOMAIN tbl
    THEN [exc |-> "none", rowcount |-> 1,
          tbl |-> [i \in DOMAIN tbl \ {ingredient_id} |-> tbl[i]]]
    ELSE [exc |-> "none", rowcount |-> 0, tbl |-> tbl]

\* DELETE FROM Ingredients (lines 131-137); Recipe_Details references
\* Ingredients ON DELETE RESTRICT
delete_ingredient(tbl, details, ingredient_id) ==
    IF \E d \in details : d.ingredient_id = ingredient_id
    THEN [exc |-> "sqlite3.IntegrityError", rowcount |-> 0, tbl |-> tbl]
    ELSE IF ingredient_id \in DOMAIN tbl
    THEN [exc |-> "none", rowcount |-> 1,
          tbl |-> [i \in DOMAIN tbl \ {ingredient_id} |-> tbl[i]]]
    ELSE [exc |-> "none", rowcount |-> 0, tbl |-> tbl]

\* the names the model uses, in SQLite's BINARY collation order
NameOrder == <<"Cascade Hops", "Ginger", "Magnum Hops">>
NameRank(name) == CHOOSE k \in DOMAIN NameOrder : NameOrder[k] = name

\* SELECT ... FROM Ingredients ORDER BY name (lines 112-117): the ids
RECURSIVE SortedIds(_, _)
SortedIds(tbl, ids) ==
    IF ids = {} THEN <<>>
    ELSE LET first == CHOOSE i \in ids :
                         \A j \in ids : NameRank(tbl[i].name) <= NameRank(tbl[j].name)
         IN  <<first>> \o SortedIds(tbl, ids \ {first})

read_ingredients(tbl) == SortedIds(tbl, DOMAIN tbl)

-----------------------------------------------------------------------------
(* services.py: scaling *)

\* mutant: the guard taken as strictly below the minimum
InvalidVolume_Strict(original_volume, new_volume) ==
    RLt(original_volume, MIN_VOLUME_BBL) \/ RLt(new_volume, MIN_VOLUME_BBL)

\* line 34: either volume at or below the minimum
InvalidVolume(original_volume, new_volume) ==
    RLe(original_volume, MIN_VOLUME_BBL) \/ RLe(new_volume, MIN_VOLUME_BBL)

\* mutant: the quotient inverted
ScaleFactor_Inverted(original_volume, new_volume) == RDiv(original_volume, new_volume)

\* line 37
ScaleFactor(original_volume, new_volume) == RDiv(new_volume, original_volume)

\* mutant: the factor added instead of multiplied
ScaledItem_Added(tbl, row, scale_factor) ==
    [id |-> row.ingredient_id,
     name |-> tbl[row.ingredient_id].name,
     quantity |-> RAdd(row.quantity, scale_factor),
     unit |-> tbl[row.ingredient_id].unit]

\* lines 54-65: one output item of the loop over the recipe's rows
ScaledItem(tbl, row, scale_factor) ==
    [id |-> row.ingredient_id,
     name |-> tbl[row.ingredient_id].name,
     quantity |-> RMul(row.quantity, scale_factor),
     unit |-> tbl[row.ingredient_id].unit]

ScaledItems(tbl, rows, scale_factor) ==
    [i \in 1..Len(rows) |-> ScaledItem(tbl, rows[i], scale_factor)]

\* connFail = 1: db.connect_db() returns None in this call.
\* connects counts the calls of db.connect_db().
scale_recipe(tbl, details, recipe_id, original_volume, new_volume, connFail) ==
    IF InvalidVolume(original_volume, new_volume)
    THEN [exc |-> "ValueError", items |-> <<>>, factor |-> Zero, connects |-> 0]
    ELSE IF connFail = 1
    THEN [exc |-> "none", items |-> <<>>, factor |-> Zero, connects |-> 1]
    ELSE [exc |-> "none",
          items |-> ScaledItems(tbl, DetailRows(details, recipe_id),
                                ScaleFactor(original_volume, new_volume)),
          factor |-> ScaleFactor(original_volume, new_volume),
          connects |-> 1]

-----------------------------------------------------------------------------
(* services.py: recursive costing *)

\* mutant: the quantity left out of the head's cost
CurrentCost_PerUnit(cost_per_unit, qty) == cost_per_unit

\* line 98
CurrentCost(cost_per_unit, qty) == RMul(cost_per_unit, qty)

\* connFail = k > 0: the k-th db.connect_db() of the recursion returns None
RECURSIVE calculate_recipe_cost(_, _, _)
calculate_recipe_cost(tbl, ingredient_list, connFail) ==
    IF ingredient_list = <<>> THEN Zero
    ELSE IF connFail = 1 THEN Zero
    ELSE RAdd(CurrentCost(tbl[Head(ingredient_list).id].cost,
                          Head(ingredient_list).quantity),
              calculate_recipe_cost(tbl, Tail(ingredient_list),
                                    IF connFail > 1 THEN connFail - 1 ELSE 0))

-----------------------------------------------------------------------------
(* services.py: batch commit *)

\* mutant: the comparison taken as <=
Short_OrEqual(current_qty, qty_needed) == RLe(current_qty, qty_needed)

\* line 121
Short(current_qty, qty_needed) == RLt(current_qty, qty_needed)

\* mutant: the loop returns after its first item
Validate_FirstOnly(tbl, ingredient_list, i) ==
    IF i <= Len(ingredient_list)
       /\ RLt(tbl[ingredient_list[i].id].inventory_qty, ingredient_list[i].quantity)
    THEN [kind |-> "short", at |-> i]
    ELSE [kind |-> "sufficient", at |-> 0]

\* mutant: the loop runs to its end and reports the last short item
Validate_LastShort(tbl, ingredient_list, i) ==
    LET short == { j \in i..Len(ingredient_list) :
                     RLt(tbl[ingredient_list[j].id].inventory_qty,
                         ingredient_list[j].quantity) }
    IN  IF short = {} THEN [kind |-> "sufficient", at |-> 0]
        ELSE [kind |-> "short", at |-> Max(short)]

\* lines 113-124: the validation loop from item i on.  A stock read back as
\* None (NULL) makes the comparison raise TypeError.
RECURSIVE Validate(_, _, _)
Validate(tbl, ingredient_list, i) ==
    IF i > Len(ingredient_list) THEN [kind |-> "sufficient", at |-> 0]
    ELSE IF ingredient_list[i].id \notin DOMAIN tbl
    THEN [kind |-> "TypeError", at |-> i]
    ELSE IF IsNaN(tbl[ingredient_list[i].id].inventory_qty)
    THEN [kind |-> "TypeError", at |-> i]
    ELSE IF Short(tbl[ingredient_list[i].id].inventory_qty,
                  ingredient_list[i].quantity)
    THEN [kind |-> "short", at |-> i]
    ELSE Validate(tbl, ingredient_list, i + 1)

\* lines 127-131: the update loop from item i on, each update committed on
\* its own.  writeFail = k > 0: the k-th write of the call raises sqlite3.Error.
RECURSIVE Consume(_, _, _, _, _)
Consume(tbl, ingredient_list, i, writeFail, rowcounts) ==
    IF i > Len(ingredient_list)
    THEN [exc |-> "none", tbl |-> tbl, rowcounts |-> rowcounts]
    ELSE IF writeFail = i
    THEN [exc |-> "sqlite3.Error", tbl |-> tbl, rowcounts |-> rowcounts]
    ELSE Consume(update_inventory_qty(tbl, ingredient_list[i].id,
                                      RNeg(ingredient_list[i].quantity)).tbl,
                 ingredient_list, i + 1, writeFail,
                 Append(rowcounts,
                        update_inventory_qty(tbl, ingredient_list[i].id,
                                             RNeg(ingredient_list[i].quantity)).rowcount))

\* line 124: the message's fields
Insufficient(tbl, ing) ==
    [msg |-> "Insufficient inventory", name |-> ing.name,
     needs |-> Fmt2(ing.quantity), has |-> Fmt2(tbl[ing.id].inventory_qty)]

NoDetail == [name |-> "", needs |-> Zero, has |-> Zero]

\* lines 133-138
LogAndReturn(consumed, log, recipe_name, volume, final_cost, logFail) ==
    LET l == IF logFail THEN [exc |-> "sqlite3.Error", log |-> log]
             ELSE log_batch(log, recipe_name, volume, final_cost)
    IN  [exc |-> l.exc, ok |-> l.exc = "none",
         msg |-> IF l.exc = "none" THEN "Batch successfully logged" ELSE "",
         tbl |-> consumed.tbl, log |-> l.log,
         rowcounts |-> consumed.rowcounts] @@ NoDetail

\* lines 126-138
Commit(tbl, log, recipe_name, volume, final_cost, ingredient_list, writeFail) ==
    LET consumed == Consume(tbl, ingredient_list, 1, writeFail, <<>>)
    IN  IF consumed.exc # "none"
        THEN [exc |-> consumed.exc, ok |-> FALSE, msg |-> "",
              tbl |-> consumed.tbl, log |-> log,
              rowcounts |-> consumed.rowcounts] @@ NoDetail
        ELSE LogAndReturn(consumed, log, recipe_name, volume, final_cost,
                          writeFail = Len(ingredient_list) + 1)

calculate_and_log_batch(tbl, log, recipe_name, volume, final_cost, ingredient_list, connFail, writeFail) ==
    LET unchanged == [tbl |-> tbl, log |-> log, rowcounts |-> <<>>]
        v == Validate(tbl, ingredient_list, 1)
    IN  IF connFail = 1
        THEN [exc |-> "none", ok |-> FALSE, msg |-> "Database connection failed"]
             @@ NoDetail @@ unchanged
        ELSE IF v.kind = "TypeError"
        THEN [exc |-> "TypeError", ok |-> FALSE, msg |-> ""] @@ NoDetail @@ unchanged
        ELSE IF v.kind = "short"
        THEN [exc |-> "none", ok |-> FALSE]
             @@ Insufficient(tbl, ingredient_list[v.at]) @@ unchanged
        ELSE Commit(tbl, log, recipe_name, volume, final_cost, ingredient_list,
                    writeFail)

-----------------------------------------------------------------------------
(* gui.py: what the handlers compute *)

\* the texts the model types into entry fields, with what float() makes of
\* them; float() raises ValueError on every other text
FloatLiterals ==
    ("15" :> R(15, 1)) @@ ("7.5" :> R(15, 2)) @@ ("0.5" :> R(1, 2))
 @@ ("nan" :> NaN) @@ ("0.0" :> Zero) @@ ("10" :> R(10, 1))
 @@ ("-20" :> R(-20, 1)) @@ ("0" :> Zero) @@ ("1" :> R(1, 1))
 @@ ("2" :> R(2, 1)) @@ ("5" :> R(5, 1)) @@ ("-1" :> R(-1, 1))

float(text) ==
    IF text \in DOMAIN FloatLiterals
    THEN [exc |-> "none", val |-> FloatLiterals[text]]
    ELSE [exc |-> "ValueError", val |-> NaN]

\* BreweryApp._display_inventory (lines 225-238): the listbox is cleared and
\* filled in name order; formatting a NULL stock with :.2f raises TypeError,
\* which leaves the rows before it
RECURSIVE Displayed(_, _)
Displayed(tbl, ids) ==
    IF ids = <<>> \/ IsNaN(tbl[Head(ids)].inventory_qty) THEN <<>>
    ELSE <<Head(ids)>> \o Displayed(tbl, Tail(ids))

display_inventory(tbl) == Displayed(tbl, read_ingredients(tbl))

\* the cost label as _scale_and_cost writes it (line 156) and as __init__
\* and _on_recipe_select write it (lines 26, 120)
EstimatedCost(cost_with_markup) ==
    [label |-> "Final Estimated Cost: $", amount |-> Fmt2(cost_with_markup)]
NoCost == [label |-> "Final Cost: $", amount |-> Zero]

\* mutant: the markup applied once more to the parsed label
final_cost_of_Remarked(label_text) ==
    IF label_text.label = "Final Estimated Cost: $"
    THEN [exc |-> "none", val |-> RMul(label_text.amount, R(115, 100))]
    ELSE [exc |-> "ValueError", val |-> NaN]

\* _log_batch lines 177-178: the prefix "Final Estimated Cost: $" is removed
\* and the rest is parsed; "Final Cost: $0.00" is not a number
final_cost_of(label_text) ==
    IF label_text.label = "Final Estimated Cost: $"
    THEN [exc |-> "none", val |-> label_text.amount]
    ELSE [exc |-> "ValueError", val |-> NaN]

-----------------------------------------------------------------------------
(* Initial state: main.initialize_application has seeded the database and  *)
(* BreweryApp.__init__ has built the window.                               *)

NoCall == [op |-> "none", args |-> <<>>, pre |-> [tbl |-> SeedIngredients, log |-> <<>>]]

\* the processes (instances of the application) that share the database file
Procs == { 1, 2 }
Idle == [pc |-> "idle", recipe_name |-> "", volume |-> Zero, final_cost |-> Zero, ingredient_list |-> <<>>, k |-> 0, seen |-> <<>>, validated |-> FALSE, ok |-> FALSE]
NoCommits == [p \in Procs |-> Idle]

\* no calculate_recipe_cost call in flight
NoCosting == [pc |-> "idle", ingredient_list |-> [base |-> <<>>, times |-> 1], caller |-> 0, depth |-> 0, lookups |-> 0, value |-> Zero, exc |-> "none"]

InitCore ==
    /\ Ingredients = SeedIngredients
    /\ Recipes = SeedRecipes
    /\ Recipe_Details = SeedRecipe_Details
    /\ Batch_Log = <<>>
    /\ current_recipe_id = 0
    /\ current_recipe_volume = Zero
    /\ recipe_var = SeedRecipes[1].name
    /\ volume_entry = ""
    /\ output_cost_var = NoCost
    /\ scaled_ingredients = [set |-> FALSE, items |-> <<>>]
    /\ inventory_listbox = display_inventory(Ingredients)
    /\ commits = NoCommits
    /\ costing = NoCosting
    /\ call = NoCall
    /\ ret = [exc |-> "none"]

Pre == [tbl |-> Ingredients, log |-> Batch_Log]

-----------------------------------------------------------------------------
(* Direct calls of the functions of services.py and db.py, with arguments  *)
(* drawn from bounded sets and the gateway's failures injected.            *)

CoreVolumes == { R(1, 4), R(1, 2), R(15, 1), R(30, 1) }
CoreCosts == { R(30, 100), R(45, 100), R(2, 1) }
CoreQty == { R(5, 1), R(10, 1), R(101, 8) }
CoreDeltas == { R(10, 1), R(-20, 1) }
CoreBatches == { <<"American Lager", R(15, 1), R(259, 100)>>,
                 <<"Imperial Stout-Nitro", R(30, 1), R(1553, 100)>> }

IsInjective(s) == \A i, j \in DOMAIN s : s[i] = s[j] => i = j

\* the lists a scaling can hand on: one item per ingredient row, no
\* ingredient twice (Recipe_Details' primary key), name and unit as stored
ItemLists(tbl) ==
    UNION { { [i \in 1..n |-> [id |-> ids[i], name |-> tbl[ids[i]].name,
                               quantity |-> qs[i], unit |-> tbl[ids[i]].unit]] :
                ids \in { s \in [1..n -> DOMAIN tbl] : IsInjective(s) },
                qs \in [1..n -> CoreQty] } :
            n \in 0..MaxItems }

\* mutant: the scaling consumes a unit of the first ingredient's stock
CallScaleRecipe_Writing ==
    /\ UNCHANGED <<commits, costing>>
    /\ \E recipe_id \in DOMAIN Recipes, ov \in CoreVolumes, nv \in CoreVolumes,
          connFail \in {0, 1} :
           /\ call' = [op |-> "scale_recipe",
                       args |-> <<recipe_id, ov, nv, connFail>>, pre |-> Pre]
           /\ ret' = scale_recipe(Ingredients, Recipe_Details, recipe_id, ov, nv, connFail)
           /\ Ingredients' = update_inventory_qty(Ingredients, 1, R(-1, 1)).tbl
           /\ UNCHANGED <<Recipes, Recipe_Details, Batch_Log, gui>>

CallScaleRecipe ==
    /\ UNCHANGED <<commits, costing>>
    /\ \E recipe_id \in DOMAIN Recipes, ov \in CoreVolumes, nv \in CoreVolumes,
          connFail \in {0, 1} :
           /\ call' = [op |-> "scale_recipe",
                       args |-> <<recipe_id, ov, nv, connFail>>, pre |-> Pre]
           /\ ret' = scale_recipe(Ingredients, Recipe_Details, recipe_id, ov, nv, connFail)
           /\ UNCHANGED <<db, gui>>

CallCalculateRecipeCost ==
    /\ UNCHANGED <<commits, costing>>
    /\ \E ingredient_list \in ItemLists(Ingredients) :
         \E connFail \in 0..Len(ingredient_list) :
           /\ call' = [op |-> "calculate_recipe_cost",
                       args |-> <<ingredient_list, connFail>>, pre |-> Pre]
           /\ ret' = [exc |-> "none",
                      value |-> calculate_recipe_cost(Ingredients, ingredient_list, connFail)]
           /\ UNCHANGED <<db, gui>>

CallCalculateAndLogBatch ==
    /\ UNCHANGED <<commits, costing>>
    /\ \E b \in CoreBatches, ingredient_list \in ItemLists(Ingredients), connFail \in {0, 1} :
         \E writeFail \in 0..(IF connFail = 1 THEN 0 ELSE Len(ingredient_list) + 1) :
           \E r \in { calculate_and_log_batch(Ingredients, Batch_Log, b[1], b[2], b[3],
                                              ingredient_list, connFail, writeFail) } :
               /\ Len(Batch_Log) < MaxLog
               /\ call' = [op |-> "calculate_and_log_batch",
                           args |-> <<b[1], b[2], b[3], ingredient_list, connFail, writeFail>>,
                           pre |-> Pre]
               /\ ret' = [exc |-> r.exc, ok |-> r.ok, msg |-> r.msg, name |-> r.name,
                          needs |-> r.needs, has |-> r.has, rowcounts |-> r.rowcounts]
               /\ Ingredients' = r.tbl
               /\ Batch_Log' = r.log
               /\ UNCHANGED <<Recipes, Recipe_Details, gui>>

CallUpdateInventoryQty ==
    /\ UNCHANGED <<commits, costing>>
    /\ \E ingredient_id \in DOMAIN Ingredients, delta_qty \in CoreDeltas :
         \E u \in { update_inventory_qty(Ingredients, ingredient_id, delta_qty) } :
               /\ RLe(u.tbl[ingredient_id].inventory_qty, R(MaxStock, 1))
               /\ call' = [op |-> "update_inventory_qty",
                           args |-> <<ingredient_id, delta_qty>>, pre |-> Pre]
               /\ ret' = [exc |-> "none", rowcount |-> u.rowcount]
               /\ Ingredients' = u.tbl
               /\ UNCHANGED <<Recipes, Recipe_Details, Batch_Log, gui>>

\* SpecCore: the operations that write (batch commit, stock adjustment)
NextCore ==
    \/ CallCalculateAndLogBatch
    \/ CallUpdateInventoryQty

SpecCore == InitCore /\ [][NextCore]_vars

\* SpecPure: the read-only functions (scaling, costing) over databases
\* whose unit costs are drawn from CoreCosts
InitPure ==
    /\ Ingredients \in { [i \in DOMAIN SeedIngredients |->
                             [SeedIngredients[i] EXCEPT !.cost = c[i]]] :
                         c \in [DOMAIN SeedIngredients -> CoreCosts] }
    /\ Recipes = SeedRecipes
    /\ Recipe_Details = SeedRecipe_Details
    /\ Batch_Log = <<>>
    /\ current_recipe_id = 0
    /\ current_recipe_volume = Zero
    /\ recipe_var = SeedRecipes[1].name
    /\ volume_entry = ""
    /\ output_cost_var = NoCost
    /\ scaled_ingredients = [set |-> FALSE, items |-> <<>>]
    /\ inventory_listbox = display_inventory(Ingredients)
    /\ commits = NoCommits
    /\ costing = NoCosting
    /\ call = NoCall
    /\ ret = [exc |-> "none"]

NextPure ==
    \/ CallScaleRecipe
    \/ CallCalculateRecipeCost

SpecPure == InitPure /\ [][NextPure]_vars

-----------------------------------------------------------------------------
(* Claims about the batch commit (SpecCore) *)

IsCommit == call.op = "calculate_and_log_batch"
CommitName == call.args[1]
CommitVolume == call.args[2]
CommitCost == call.args[3]
CommitList == call.args[4]
CommitFaultFree == call.args[5] = 0 /\ call.args[6] = 0

OnHand(tbl, item) == tbl[item.id].inventory_qty
ShortAt(tbl, list, i) == RLt(OnHand(tbl, list[i]), list[i].quantity)
SomeShort(tbl, list) == \E i \in 1..Len(list) : ShortAt(tbl, list, i)
Untouched == Ingredients = call.pre.tbl /\ Batch_Log = call.pre.log

\* C1: a commit whose list holds an item needing more than is on hand
\* returns failure and leaves every stock and the batch log as they were,
\* wherever the short item stands in the list.
C1_AllOrNothingOnShortfall ==
    IsCommit /\ SomeShort(call.pre.tbl, CommitList)
        => ret.exc = "none" /\ ret.ok = FALSE /\ Untouched

\* the short item stands second, after a sufficient one
C1_Witness ==
    /\ IsCommit /\ call.args[5] = 0 /\ Len(CommitList) = 2
    /\ ~ShortAt(call.pre.tbl, CommitList, 1)
    /\ ShortAt(call.pre.tbl, CommitList, 2)
    /\ ret.ok = FALSE

\* the item of the list for one ingredient (ids are distinct in a list)
ItemFor(list, id) == list[CHOOSE i \in 1..Len(list) : list[i].id = id]
Involved(list) == { list[i].id : i \in 1..Len(list) }

\* C2: with the gateway working, a commit whose items are all covered by the
\* stock (equality included) returns success, lowers each involved stock by
\* exactly the item's quantity, leaves the other ingredients alone and
\* appends one record with the given recipe name, volume and final cost.
C2_SuccessfulCommit ==
    IsCommit /\ CommitFaultFree /\ ~SomeShort(call.pre.tbl, CommitList)
        => /\ ret.exc = "none" /\ ret.ok = TRUE
           /\ DOMAIN Ingredients = DOMAIN call.pre.tbl
           /\ \A id \in DOMAIN Ingredients :
                IF id \in Involved(CommitList)
                THEN Ingredients[id] =
                       [call.pre.tbl[id] EXCEPT !.inventory_qty =
                           RAdd(@, RNeg(ItemFor(CommitList, id).quantity))]
                ELSE Ingredients[id] = call.pre.tbl[id]
           /\ Batch_Log = Append(call.pre.log,
                                 [id |-> Len(call.pre.log) + 1,
                                  recipe_name |-> CommitName,
                                  volume_BBL |-> CommitVolume,
                                  final_cost |-> CommitCost])

\* a two-item commit succeeded with one item needing exactly the stock
C2_Witness ==
    /\ IsCommit /\ CommitFaultFree /\ ret.ok = TRUE /\ Len(CommitList) = 2
    /\ \E i \in 1..2 : CommitList[i].quantity = OnHand(call.pre.tbl, CommitList[i])
    /\ Len(call.pre.log) = 1

\* C3: a commit that does not succeed (it returned failure or a step of it
\* raised) leaves no stock decrement and no log record behind.
C3_CommitIsAtomic ==
    IsCommit /\ ~(ret.exc = "none" /\ ret.ok = TRUE) => Untouched

\* C5: a record is appended to Batch_Log only by a commit each of whose
\* decrements matched its ingredient row and lowered the stock by the item's
\* full quantity, the zero floor changing nothing.
C5_LoggedOnlyAfterAllDecrements ==
    Batch_Log # call.pre.log
        => /\ IsCommit
           /\ Len(ret.rowcounts) = Len(CommitList)
           /\ \A i \in 1..Len(CommitList) :
                /\ ret.rowcounts[i] = 1
                /\ RAdd(OnHand(Ingredients, CommitList[i]), CommitList[i].quantity)
                     = OnHand(call.pre.tbl, CommitList[i])

\* a record was appended by a commit of two items
C5_Witness ==
    /\ IsCommit /\ Len(Batch_Log) = Len(call.pre.log) + 1 /\ Len(CommitList) = 2
    /\ Len(Batch_Log) = 2

FirstShort(tbl, list) ==
    CHOOSE i \in 1..Len(list) :
        ShortAt(tbl, list, i) /\ \A j \in 1..(i - 1) : ~ShortAt(tbl, list, j)

\* C6: with the connection open, a commit with short items reports the
\* first short item of the list: its name, its needed quantity and the
\* quantity on hand (both to two decimals); later shortfalls are not named.
C6_FirstShortfallReported ==
    IsCommit /\ call.args[5] = 0 /\ SomeShort(call.pre.tbl, CommitList)
        => LET ing == CommitList[FirstShort(call.pre.tbl, CommitList)]
           IN  /\ ret.msg = "Insufficient inventory"
               /\ ret.name = ing.name
               /\ ret.needs = Fmt2(ing.quantity)
               /\ ret.has = Fmt2(OnHand(call.pre.tbl, ing))

\* both items of the list are short, by different amounts
C6_Witness ==
    /\ IsCommit /\ call.args[5] = 0 /\ Len(CommitList) = 2
    /\ ShortAt(call.pre.tbl, CommitList, 1) /\ ShortAt(call.pre.tbl, CommitList, 2)
    /\ CommitList[1].quantity # CommitList[2].quantity
    /\ ret.name = CommitList[1].name
    /\ ret.needs # CommitList[1].quantity

-----------------------------------------------------------------------------
(* Claims about scaling and costing (SpecPure) *)

IsScale == call.op = "scale_recipe"
ScaleRecipeId == call.args[1]
ScaleBase == call.args[2]
ScaleTarget == call.args[3]
ScaleConnected == call.args[4] = 0
AboveMinimum(v) == RLt(R(1, 2), v)
AtOrBelowMinimum(v) == RLe(v, R(1, 2))

RowsOf(recipe_id) == { d \in Recipe_Details : d.recipe_id = recipe_id }

\* C8: with both volumes above the minimum and the connection open,
\* scale_recipe returns target / base as the factor and one item per
\* composition row of the recipe, with the row's quantity times the factor
\* and the id, name and unit of the row's ingredient.
C8_ProportionalScaling ==
    IsScale /\ ScaleConnected /\ AboveMinimum(ScaleBase) /\ AboveMinimum(ScaleTarget)
        => /\ ret.exc = "none"
           /\ RMul(ret.factor, ScaleBase) = ScaleTarget
           /\ Len(ret.items) = Cardinality(RowsOf(ScaleRecipeId))
           /\ \A d \in RowsOf(ScaleRecipeId) :
                \E i \in 1..Len(ret.items) :
                    /\ ret.items[i].id = d.ingredient_id
                    /\ RMul(ret.items[i].quantity, ScaleBase)
                         = RMul(d.quantity, ScaleTarget)
                    /\ ret.items[i].name = Ingredients[d.ingredient_id].name
                    /\ ret.items[i].unit = Ingredients[d.ingredient_id].unit

\* base 15, target 30: factor 2, and a quantity of 15 becomes 30
C8_Witness ==
    /\ IsScale /\ ScaleConnected /\ ScaleRecipeId = 2
    /\ ScaleBase = R(15, 1) /\ ScaleTarget = R(30, 1)
    /\ ret.factor = R(2, 1)
    /\ Len(ret.items) = 1 /\ ret.items[1].quantity = R(30, 1)

\* C9: scaling to the base volume itself (any volume above the minimum)
\* gives factor 1 and the stored base quantities.
C9_ScalingIdentity ==
    IsScale /\ ScaleConnected /\ AboveMinimum(ScaleBase) /\ ScaleTarget = ScaleBase
        => /\ ret.factor = R(1, 1)
           /\ ret.items = [i \in 1..Len(ret.items) |->
                             [ret.items[i] EXCEPT !.quantity =
                                 DetailRows(Recipe_Details, ScaleRecipeId)[i].quantity]]
           /\ Len(ret.items) = Len(DetailRows(Recipe_Details, ScaleRecipeId))

\* a two-row recipe scaled from 30 to 30
C9_Witness ==
    /\ IsScale /\ ScaleConnected /\ ScaleRecipeId = 1
    /\ ScaleBase = R(30, 1) /\ ScaleTarget = R(30, 1)
    /\ Len(ret.items) = 2

IsCost == call.op = "calculate_recipe_cost"
CostList == call.args[1]
CostConnected == call.args[2] = 0

\* the sum of unit cost times quantity over the first n items, from the left
RECURSIVE SumOfProducts(_, _, _)
SumOfProducts(tbl, list, n) ==
    IF n = 0 THEN Zero
    ELSE RAdd(SumOfProducts(tbl, list, n - 1),
              RMul(tbl[list[n].id].cost, list[n].quantity))

Reorderings(list) ==
    { [i \in 1..Len(list) |-> list[p[i]]] :
        p \in { q \in [1..Len(list) -> 1..Len(list)] : IsInjective(q) } }

\* C10: with the connection open, calculate_recipe_cost of the empty list is
\* 0, of any list the sum over its items of the ingredient's current unit
\* cost times the item's quantity, and the same for every permutation.
C10_CostAggregation ==
    IsCost /\ CostConnected
        => /\ CostList = <<>> => ret.value = Zero
           /\ ret.value = SumOfProducts(Ingredients, CostList, Len(CostList))
           /\ \A perm \in Reorderings(CostList) :
                calculate_recipe_cost(Ingredients, perm, 0) = ret.value

\* two items of different unit cost and quantity
C10_Witness ==
    /\ IsCost /\ CostConnected /\ Len(CostList) = 2
    /\ CostList[1].quantity # CostList[2].quantity
    /\ Ingredients[CostList[1].id].cost # Ingredients[CostList[2].id].cost
    /\ RLt(Zero, ret.value)

-----------------------------------------------------------------------------
(* The application: BreweryApp and its dialogs over the database.  The     *)
(* window is modelled over a database seeded with the first ingredient of  *)
(* the sample and the rows of the recipes that use it.                     *)

GuiIngredients == [i \in {1} |-> SeedIngredients[i]]
GuiRecipe_Details ==
    { d \in SeedRecipe_Details : d.ingredient_id \in DOMAIN GuiIngredients }
GuiRecipes ==
    [r \in DOMAIN SeedRecipes |->
        [SeedRecipes[r] EXCEPT
            !.base_cost = SeedBaseCost(GuiIngredients,
                                       DetailRows(GuiRecipe_Details, r))]]

Init ==
    /\ Ingredients = GuiIngredients
    /\ Recipes = GuiRecipes
    /\ Recipe_Details = GuiRecipe_Details
    /\ Batch_Log = <<>>
    /\ current_recipe_id = 0
    /\ current_recipe_volume = Zero
    /\ recipe_var = GuiRecipes[1].name
    /\ volume_entry = ""
    /\ output_cost_var = NoCost
    /\ scaled_ingredients = [set |-> FALSE, items |-> <<>>]
    /\ inventory_listbox = display_inventory(Ingredients)
    /\ commits = NoCommits
    /\ costing = NoCosting
    /\ call = NoCall
    /\ ret = [exc |-> "none"]

\* what the user types
VolumeTexts == { "7.5", "0.5", "nan" }
AddNames == { "Ginger", "Magnum Hops", "" }
AddCosts == { "2", "0" }
AddQtys == { "10", "-1", "nan", "abc" }
Prefilled == "(prefilled)"
EditCosts == { Prefilled, "2", "0" }
EditDeltas == { "0.0", "10", "-20", "nan" }

Selectable == { inventory_listbox[k] : k \in DOMAIN inventory_listbox }
WithinStock(tbl) ==
    \A i \in DOMAIN tbl :
        IsNaN(tbl[i].inventory_qty) \/ RLe(tbl[i].inventory_qty, R(MaxStock, 1))
NoHistory == call' = NoCall /\ ret' = [exc |-> "none"]

\* mutant: the selection leaves the cost label as it is
OnRecipeSelect_KeepsCost ==
    /\ UNCHANGED <<commits, costing>>
    /\ \E r \in DOMAIN Recipes :
           /\ recipe_var' = Recipes[r].name
           /\ current_recipe_id' = r
           /\ current_recipe_volume' = Recipes[r].target_volume_BBL
           /\ output_cost_var' = output_cost_var
           /\ NoHistory
           /\ UNCHANGED <<db, volume_entry, scaled_ingredients, inventory_listbox>>

\* the OptionMenu sets recipe_var and calls _on_recipe_select (lines 112-122)
OnRecipeSelect ==
    /\ UNCHANGED <<commits, costing>>
    /\ \E r \in DOMAIN Recipes :
           /\ recipe_var' = Recipes[r].name
           /\ current_recipe_id' = r
           /\ current_recipe_volume' = Recipes[r].target_volume_BBL
           /\ output_cost_var' = NoCost
           /\ NoHistory
           /\ UNCHANGED <<db, volume_entry, scaled_ingredients, inventory_listbox>>

\* the user edits the text of volume_entry
TypeVolume ==
    /\ UNCHANGED <<commits, costing>>
    /\ \E text \in VolumeTexts :
           /\ volume_entry' = text
           /\ NoHistory
           /\ UNCHANGED <<db, current_recipe_id, current_recipe_volume, recipe_var,
                          output_cost_var, scaled_ingredients, inventory_listbox>>

\* _scale_and_cost (lines 124-165)
ScaleAndCost ==
    /\ UNCHANGED <<commits, costing>>
    /\ LET new_volume == float(volume_entry)
       IN  /\ IF \/ current_recipe_id = 0
                 \/ new_volume.exc # "none"
                 \/ RLe(new_volume.val, MIN_VOLUME_BBL)
              THEN UNCHANGED <<output_cost_var, scaled_ingredients>>
              ELSE \E s \in { scale_recipe(Ingredients, Recipe_Details, current_recipe_id,
                                           current_recipe_volume, new_volume.val, 0) } :
                     IF s.exc # "none"
                     THEN UNCHANGED <<output_cost_var, scaled_ingredients>>
                     ELSE /\ output_cost_var' =
                               EstimatedCost(RMul(calculate_recipe_cost(Ingredients, s.items, 0),
                                                  COST_MARKUP))
                          /\ scaled_ingredients' = [set |-> TRUE, items |-> s.items]
           /\ NoHistory
           /\ UNCHANGED <<db, current_recipe_id, current_recipe_volume, recipe_var,
                          volume_entry, inventory_listbox>>

\* _log_batch (lines 167-191): float() of the entry or of the cost label may
\* raise ValueError out of the callback; a TypeError or sqlite3 error of the
\* commit leaves the handler the same way, after the writes already made
LogBatch ==
    /\ UNCHANGED <<commits, costing>>
    /\ LET volume == float(volume_entry)
           final_cost == final_cost_of(output_cost_var)
       IN  /\ Len(Batch_Log) < MaxBatches
           /\ IF \/ ~scaled_ingredients.set
                 \/ volume.exc # "none"
                 \/ final_cost.exc # "none"
              THEN NoHistory /\ UNCHANGED <<Ingredients, Batch_Log>>
              ELSE \E r \in { calculate_and_log_batch(Ingredients, Batch_Log, recipe_var,
                                 volume.val, final_cost.val, scaled_ingredients.items, 0, 0) } :
                     /\ Ingredients' = r.tbl
                     /\ Batch_Log' = r.log
                     /\ call' = [op |-> "calculate_and_log_batch",
                                 args |-> <<recipe_var, volume.val, final_cost.val,
                                            scaled_ingredients.items, 0, 0>>,
                                 pre |-> Pre]
                     /\ ret' = [exc |-> r.exc, ok |-> r.ok, msg |-> r.msg, name |-> r.name,
                                needs |-> r.needs, has |-> r.has, rowcounts |-> r.rowcounts]
           /\ UNCHANGED <<Recipes, Recipe_Details, gui>>

\* AddDialog._save_ingredient (lines 368-413), unit "oz" and type "Other"
SaveIngredient ==
    /\ UNCHANGED <<commits, costing>>
    /\ \E name \in AddNames, cost_text \in AddCosts, qty_text \in AddQtys :
           LET cost == float(cost_text)
               qty == float(qty_text)
           IN  /\ IF \/ cost.exc # "none" \/ qty.exc # "none"
                     \/ name = ""
                     \/ RLe(cost.val, Zero) \/ RLt(qty.val, Zero)
                  THEN UNCHANGED <<Ingredients, inventory_listbox>>
                  ELSE \E a \in { add_ingredient(Ingredients, name, cost.val, "oz", qty.val) } :
                         IF a.exc # "none" \/ a.result = "DUPLICATE_NAME"
                         THEN UNCHANGED <<Ingredients, inventory_listbox>>
                         ELSE /\ Ingredients' = a.tbl
                              /\ inventory_listbox' = display_inventory(a.tbl)
               /\ NoHistory
               /\ UNCHANGED <<Recipes, Recipe_Details, Batch_Log, current_recipe_id,
                              current_recipe_volume, recipe_var, volume_entry,
                              output_cost_var, scaled_ingredients>>

\* UPDATE Ingredients SET cost = ? (gui.py lines 488-490); cost is NOT NULL
update_cost(tbl, ingredient_id, new_cost) ==
    IF IsNaN(new_cost)
    THEN [exc |-> "sqlite3.IntegrityError", tbl |-> tbl]
    ELSE [exc |-> "none", tbl |-> [tbl EXCEPT ![ingredient_id].cost = new_cost]]

\* mutant: the edit of a unit cost recomputes every recipe's base_cost
UpdateIngredient_Recosting ==
    /\ UNCHANGED <<commits, costing>>
    /\ \E ing_id \in Selectable \cap DOMAIN Ingredients :
           /\ ~IsNaN(Ingredients[ing_id].inventory_qty)
           /\ Ingredients' = update_cost(Ingredients, ing_id, R(2, 1)).tbl
           /\ Recipes' =
                 [r \in DOMAIN Recipes |->
                     [Recipes[r] EXCEPT
                         !.base_cost = SeedBaseCost(Ingredients',
                                                    DetailRows(Recipe_Details, r))]]
           /\ inventory_listbox' = display_inventory(Ingredients')
           /\ NoHistory
           /\ UNCHANGED <<Recipe_Details, Batch_Log, current_recipe_id,
                          current_recipe_volume, recipe_var, volume_entry,
                          output_cost_var, scaled_ingredients>>

\* a double click on a listbox row opens EditDialog (lines 244-261, 420-472),
\* whose _build_ui formats the current stock with :.2f and so never shows
\* for a NULL stock; then _update_ingredient (lines 474-508)
UpdateIngredient ==
    /\ UNCHANGED <<commits, costing>>
    /\ \E ing_id \in Selectable \cap DOMAIN Ingredients,
          cost_text \in EditCosts, delta_text \in EditDeltas :
           LET new_cost == IF cost_text = Prefilled
                           THEN [exc |-> "none", val |-> Ingredients[ing_id].cost]
                           ELSE float(cost_text)
               delta_qty == float(delta_text)
           IN  /\ IF \/ IsNaN(Ingredients[ing_id].inventory_qty)
                     \/ new_cost.exc # "none" \/ delta_qty.exc # "none"
                     \/ RLe(new_cost.val, Zero)
                  THEN UNCHANGED <<Ingredients, inventory_listbox>>
                  ELSE \E c \in { update_cost(Ingredients, ing_id, new_cost.val) } :
                         IF c.exc # "none"
                         THEN UNCHANGED <<Ingredients, inventory_listbox>>
                         ELSE \E u \in { update_inventory_qty(c.tbl, ing_id, delta_qty.val) } :
                                /\ WithinStock(u.tbl)
                                /\ Ingredients' = u.tbl
                                /\ inventory_listbox' =
                                       IF u.rowcount > 0 THEN display_inventory(u.tbl)
                                       ELSE inventory_listbox
               /\ NoHistory
               /\ UNCHANGED <<Recipes, Recipe_Details, Batch_Log, current_recipe_id,
                              current_recipe_volume, recipe_var, volume_entry,
                              output_cost_var, scaled_ingredients>>

\* _delete_selected_ingredient (lines 263-291), the confirmation answered yes
DeleteSelectedIngredient ==
    /\ UNCHANGED <<commits, costing>>
    /\ \E ing_id \in Selectable :
           /\ \E d \in { delete_ingredient(Ingredients, Recipe_Details, ing_id) } :
                IF d.exc # "none" \/ d.rowcount = 0
                THEN UNCHANGED <<Ingredients, inventory_listbox>>
                ELSE /\ Ingredients' = d.tbl
                     /\ inventory_listbox' = display_inventory(d.tbl)
           /\ NoHistory
           /\ UNCHANGED <<Recipes, Recipe_Details, Batch_Log, current_recipe_id,
                          current_recipe_volume, recipe_var, volume_entry,
                          output_cost_var, scaled_ingredients>>

\* _export_log (gui.py lines 330-336) calls export_batch_log_to_csv
\* (services.py lines 141-173), which reads Batch_Log with get_batch_log and
\* writes the rows to data/batch_log_export.csv; no table and no field of
\* the window is written
ExportLog ==
    /\ UNCHANGED <<commits, costing>>
    /\ /\ NoHistory
       /\ UNCHANGED <<db, gui>>

Next ==
    \/ OnRecipeSelect
    \/ TypeVolume
    \/ ScaleAndCost
    \/ LogBatch
    \/ SaveIngredient
    \/ UpdateIngredient
    \/ DeleteSelectedIngredient
    \/ ExportLog

Spec == Init /\ [][Next]_vars

-----------------------------------------------------------------------------
(* Claims about the application (Spec) *)

\* C4: in every state reachable through the application's operations (Add
\* dialog, stock adjustments of either sign, successful and failed commits,
\* deletions) every ingredient's on-hand quantity is a number >= 0.
C4_StockNonNegative ==
    \A i \in DOMAIN Ingredients : RLe(Zero, Ingredients[i].inventory_qty)

LastRecord == Batch_Log[Len(Batch_Log)]
Logged == IsCommit /\ ret.exc = "none" /\ ret.ok = TRUE

\* the marked-up price of an item list at the unit costs of a table, as
\* _scale_and_cost would quote it
QuoteAt(tbl, list) == Fmt2(RMul(calculate_recipe_cost(tbl, list, 0), R(115, 100)))

\* C11 (as the code has it): the final cost recorded for a batch logged from
\* the window is the price that stands in the cost label since the scaling,
\* also when a unit cost was changed between the scaling and the commit.
C11_RecordedCostIsStandingQuote ==
    Logged => /\ output_cost_var.label = "Final Estimated Cost: $"
              /\ LastRecord.final_cost = output_cost_var.amount
              /\ CommitCost = output_cost_var.amount

\* a batch was logged at a price that the unit costs at the commit no longer give
C11_Witness ==
    /\ Logged
    /\ LastRecord.final_cost = output_cost_var.amount
    /\ LastRecord.final_cost # QuoteAt(call.pre.tbl, CommitList)

\* C11 (as claimed): the final cost recorded reflects the unit costs current
\* at the commit, not the price quoted at the scaling.
C11_RecordedCostIsCurrent ==
    Logged => LastRecord.final_cost = QuoteAt(call.pre.tbl, CommitList)

\* C12: the cost label is only ever set to the raw cost of the scaled list
\* at the unit costs of that moment, times 1.15, to two decimals; and a batch
\* record is only ever appended with the price standing in the label.
C12_LoggedCostIsMarkedUpQuote ==
    [][ /\ ( \/ scaled_ingredients' # scaled_ingredients
             \/ /\ output_cost_var' # output_cost_var
                /\ output_cost_var'.label = "Final Estimated Cost: $" )
           => /\ scaled_ingredients'.set
              /\ output_cost_var' =
                    [label |-> "Final Estimated Cost: $",
                     amount |-> QuoteAt(Ingredients, scaled_ingredients'.items)]
        /\ Batch_Log' # Batch_Log
           => /\ output_cost_var.label = "Final Estimated Cost: $"
              /\ Len(Batch_Log') = Len(Batch_Log) + 1
              /\ Batch_Log'[Len(Batch_Log')].final_cost = output_cost_var.amount
      ]_vars

\* half a batch of American Lager logged: 2.5 oz at 0.45 is 1.125 raw,
\* 1.29375 with the markup, recorded as 1.29
C12_Witness ==
    /\ Logged
    /\ CommitList = scaled_ingredients.items
    /\ calculate_recipe_cost(call.pre.tbl, CommitList, 0) = R(1125, 1000)
    /\ LastRecord.final_cost = R(129, 100)

-----------------------------------------------------------------------------
(* Direct calls of the gateway's operations on the Ingredients table       *)

GatewayNames == { "Ginger", "Magnum Hops" }
GatewayQtys == { R(5, 1), Zero, R(-5, 1) }
GatewayDeltas == { R(10, 1), Zero, R(-5, 1), R(-20, 1) }
\* an id that no row has
MissingId(tbl) == NextId(DOMAIN tbl)

GatewayAddIngredient ==
    /\ UNCHANGED <<commits, costing>>
    /\ \E name \in GatewayNames, qty \in GatewayQtys :
         \E a \in { add_ingredient(Ingredients, name, R(2, 1), "oz", qty) } :
           /\ call' = [op |-> "add_ingredient", args |-> <<name, R(2, 1), "oz", qty>>,
                       pre |-> Pre]
           /\ ret' = [exc |-> a.exc, result |-> a.result]
           /\ Ingredients' = a.tbl
           /\ UNCHANGED <<Recipes, Recipe_Details, Batch_Log, gui>>

GatewayUpdateInventoryQty ==
    /\ UNCHANGED <<commits, costing>>
    /\ \E ingredient_id \in DOMAIN Ingredients \cup {MissingId(Ingredients)},
          delta_qty \in GatewayDeltas :
         \E u \in { update_inventory_qty(Ingredients, ingredient_id, delta_qty) } :
           /\ WithinStock(u.tbl)
           /\ call' = [op |-> "update_inventory_qty",
                       args |-> <<ingredient_id, delta_qty>>, pre |-> Pre]
           /\ ret' = [exc |-> "none", rowcount |-> u.rowcount]
           /\ Ingredients' = u.tbl
           /\ UNCHANGED <<Recipes, Recipe_Details, Batch_Log, gui>>

GatewayDeleteIngredient ==
    /\ UNCHANGED <<commits, costing>>
    /\ \E ingredient_id \in DOMAIN Ingredients \cup {MissingId(Ingredients)} :
         \E d \in { delete_ingredient(Ingredients, Recipe_Details, ingredient_id) } :
           /\ call' = [op |-> "delete_ingredient", args |-> <<ingredient_id>>, pre |-> Pre]
           /\ ret' = [exc |-> d.exc, rowcount |-> d.rowcount]
           /\ Ingredients' = d.tbl
           /\ UNCHANGED <<Recipes, Recipe_Details, Batch_Log, gui>>

NextGateway ==
    \/ GatewayAddIngredient
    \/ GatewayUpdateInventoryQty
    \/ GatewayDeleteIngredient

SpecGateway == InitCore /\ [][NextGateway]_vars

-----------------------------------------------------------------------------
(* Claims about the gateway (SpecGateway) *)

IsUpdate == call.op = "update_inventory_qty"
UpdateId == call.args[1]
UpdateDelta == call.args[2]
FlooredSum(q, d) == IF RLt(RAdd(q, d), Zero) THEN Zero ELSE RAdd(q, d)

\* C13: update_inventory_qty on an existing ingredient with stock q and a
\* delta d of any sign leaves the stock max(0, q + d) and every other
\* ingredient, and every other column, as it was.
C13_AdditiveWithZeroFloor ==
    IsUpdate /\ UpdateId \in DOMAIN call.pre.tbl
        => /\ ret.rowcount = 1
           /\ Ingredients =
                [call.pre.tbl EXCEPT ![UpdateId].inventory_qty =
                    FlooredSum(call.pre.tbl[UpdateId].inventory_qty, UpdateDelta)]

\* a stock of 5 adjusted by -20 is left at 0, the other stocks as they were
C13_Witness ==
    /\ IsUpdate /\ UpdateId \in DOMAIN call.pre.tbl
    /\ call.pre.tbl[UpdateId].inventory_qty = R(5, 1)
    /\ UpdateDelta = R(-20, 1)
    /\ Ingredients[UpdateId].inventory_qty = Zero
    /\ \E other \in DOMAIN Ingredients :
          other # UpdateId /\ Ingredients[other].inventory_qty = R(10, 1)

IsAdd == call.op = "add_ingredient"
AddName == call.args[1]
AddQty == call.args[4]
IsDelete == call.op = "delete_ingredient"
DeleteId == call.args[1]
Referenced(id) == \E d \in Recipe_Details : d.ingredient_id = id

\* C14: no call of add_ingredient or update_inventory_qty, whatever its
\* quantity or delta, leaves a row with a negative on-hand quantity.
C14_GatewayKeepsStockNonNegative ==
    IsAdd \/ IsUpdate
        => \A i \in DOMAIN Ingredients : ~RLt(Ingredients[i].inventory_qty, Zero)

\* C15: delete_ingredient of a referenced ingredient raises and leaves the
\* ingredients, their stocks and the compositions as they were; a row is
\* removed only when no composition row references it; and every
\* composition row references an existing ingredient.
C15_RestrictOnDelete ==
    /\ \A d \in Recipe_Details : d.ingredient_id \in DOMAIN Ingredients
    /\ IsDelete /\ Referenced(DeleteId)
         => /\ ret.exc = "sqlite3.IntegrityError"
            /\ Ingredients = call.pre.tbl
            /\ Recipe_Details = SeedRecipe_Details
    /\ IsDelete /\ ~Referenced(DeleteId)
         => /\ ret.exc = "none"
            /\ Ingredients = [i \in DOMAIN call.pre.tbl \ {DeleteId} |-> call.pre.tbl[i]]
            /\ ret.rowcount = IF DeleteId \in DOMAIN call.pre.tbl THEN 1 ELSE 0

\* the deletion of Magnum Hops, which two recipes use, was refused while an
\* unreferenced ingredient stood in the table
C15_Witness ==
    /\ IsDelete /\ Referenced(DeleteId)
    /\ call.pre.tbl[DeleteId].name = "Magnum Hops"
    /\ ret.exc = "sqlite3.IntegrityError"
    /\ \E i \in DOMAIN Ingredients : ~Referenced(i)

-----------------------------------------------------------------------------
(* Claims about the batch log, the recipes and the inputs of the core *)

RecordIds(log) == { log[k].id : k \in 1..Len(log) }

\* C17: the batch log is append-only: the ids of its records are unique, and
\* a step of any operation of the application (recipe selection, scaling
\* and costing, commit, ingredient add, edit and delete, export) that
\* changes the log is a successful commit that keeps every earlier record
\* as it was, in its place, and appends exactly one record with a new id.
C17_LogIsAppendOnly ==
    /\ [](\A j, k \in 1..Len(Batch_Log) :
             Batch_Log[j].id = Batch_Log[k].id => j = k)
    /\ [][Batch_Log' # Batch_Log
             => /\ Len(Batch_Log') = Len(Batch_Log) + 1
                /\ SubSeq(Batch_Log', 1, Len(Batch_Log)) = Batch_Log
                /\ Batch_Log'[Len(Batch_Log')].id \notin RecordIds(Batch_Log)
                /\ call'.op = "calculate_and_log_batch"
                /\ ret'.exc = "none" /\ ret'.ok = TRUE]_vars

\* two records with different ids stand in the log after an operation other
\* than a commit, and an ingredient was added and a unit cost edited
C17_Witness ==
    /\ Len(Batch_Log) = 2
    /\ Batch_Log[1].id # Batch_Log[2].id
    /\ call = NoCall
    /\ \E i \in DOMAIN Ingredients : Ingredients[i].name = "Ginger"
    /\ \E i \in DOMAIN Ingredients :
          Ingredients[i].name = "Magnum Hops" /\ Ingredients[i].cost = R(2, 1)

\* the base cost the composition and the current unit costs would give
RecomputedBaseCost(r) == SeedBaseCost(Ingredients, DetailRows(Recipe_Details, r))

\* C18: in every state the application reaches (through unit cost edits,
\* stock adjustments, scaling, costing and commits) each recipe's stored
\* base_cost is the one computed when the recipe was created.
C18_BaseCostFrozen ==
    \A r \in DOMAIN Recipes : Recipes[r].base_cost = GuiRecipes[r].base_cost

\* the unit cost of Magnum Hops was edited from 0.45 to 2, its stock was
\* consumed by a logged batch, and American Lager's base_cost is still
\* 5 x 0.45 = 2.25, not the 10 a recomputation would give
C18_Witness ==
    /\ Ingredients[1].cost = R(2, 1)
    /\ Len(Batch_Log) > 0
    /\ RLt(Ingredients[1].inventory_qty, R(10, 1))
    /\ Recipes[1].base_cost = R(9, 4)
    /\ RecomputedBaseCost(1) = R(10, 1)

\* C19: when the database connection cannot be opened, scale_recipe (its
\* volumes being valid) and calculate_recipe_cost (at whichever depth of the
\* recursion the connection fails) report a failure to the caller instead
\* of returning a normal-looking result.
C19_UnavailableIsReported ==
    /\ IsScale /\ ~ScaleConnected /\ AboveMinimum(ScaleBase) /\ AboveMinimum(ScaleTarget)
         => ret.exc # "none"
    /\ IsCost /\ ~CostConnected => ret.exc # "none"

\* C20: whatever the user does, no ingredient is stored with an empty name
\* or a unit cost <= 0, every call of calculate_and_log_batch carries a
\* numeric volume above MIN_VOLUME_BBL, and so does every batch record.
C20_CoreReceivesValidInput ==
    /\ \A i \in DOMAIN Ingredients :
          Ingredients[i].name # "" /\ RLt(Zero, Ingredients[i].cost)
    /\ IsCommit => ~IsNaN(CommitVolume) /\ RLt(MIN_VOLUME_BBL, CommitVolume)
    /\ \A k \in 1..Len(Batch_Log) : RLt(MIN_VOLUME_BBL, Batch_Log[k].volume_BBL)

-----------------------------------------------------------------------------
(* Claims about frame effects, concurrency, recipe creation and termination *)

\* C21: a step that calls scale_recipe or calculate_recipe_cost, whether the
\* call returns a result, raises ValueError or finds the connection closed,
\* leaves the ingredients (costs and stocks), the recipes, the composition
\* rows and the batch log as they were.
C21_ScalingAndCostingReadOnly ==
    [][call'.op \in { "scale_recipe", "calculate_recipe_cost" }
          => UNCHANGED <<Ingredients, Recipes, Recipe_Details, Batch_Log>>]_vars

\* a scaling that returned a two-item list, with the tables as before the call
C21_Witness ==
    /\ IsScale /\ ScaleConnected /\ ret.exc = "none"
    /\ Len(ret.items) = 2
    /\ Ingredients = call.pre.tbl
    /\ Batch_Log = call.pre.log

-----------------------------------------------------------------------------
(* services.py lines 104-138 statement by statement: two processes, each   *)
(* with its own connection to the database file, run                       *)
(* calculate_and_log_batch; every SELECT, every committed UPDATE and the   *)
(* committed INSERT is one step, and the steps of the two interleave.      *)

\* the batches a process commits: a recipe scaled to a volume, at the price
\* _scale_and_cost quotes for it
RaceBatches == { <<1, R(15, 1)>>, <<1, R(15, 2)>>, <<2, R(15, 2)>> }
RaceList(b) == scale_recipe(SeedIngredients, SeedRecipe_Details, b[1], SeedRecipes[b[1]].target_volume_BBL, b[2], 0).items
RaceCost(b) == Fmt2(RMul(calculate_recipe_cost(SeedIngredients, RaceList(b), 0), COST_MARKUP))

\* lines 109-110: db.connect_db() and the return when it gave None
RaceConnect(p) ==
    /\ commits[p].pc = "idle"
    /\ \E b \in RaceBatches, connFail \in {0, 1} :
         commits' = [commits EXCEPT ![p] =
             [pc |-> IF connFail = 1 THEN "done" ELSE "validate",
              recipe_name |-> SeedRecipes[b[1]].name, volume |-> b[2],
              final_cost |-> RaceCost(b), ingredient_list |-> RaceList(b),
              k |-> 1, seen |-> <<>>, validated |-> FALSE, ok |-> FALSE]]
    /\ UNCHANGED <<db, gui, costing, call, ret>>

\* lines 113-124: one turn of the validation loop, the SELECT of item k's
\* stock and the comparison; the loop's end passes on to the update loop
RaceValidate(p) ==
    LET c == commits[p]
    IN  /\ c.pc = "validate"
        /\ IF c.k > Len(c.ingredient_list)
           THEN commits' = [commits EXCEPT ![p].pc = "update", ![p].k = 1,
                                           ![p].validated = TRUE]
           ELSE LET current_qty == Ingredients[c.ingredient_list[c.k].id].inventory_qty
                IN  IF Short(current_qty, c.ingredient_list[c.k].quantity)
                    THEN commits' = [commits EXCEPT ![p].pc = "done",
                                                    ![p].seen = Append(@, current_qty)]
                    ELSE commits' = [commits EXCEPT ![p].k = @ + 1,
                                                    ![p].seen = Append(@, current_qty)]
        /\ UNCHANGED <<db, gui, costing, call, ret>>

\* mutant: the update loop reads the stock again and gives up when short
RaceUpdate_Revalidating(p) ==
    LET c == commits[p]
    IN  /\ c.pc = "update"
        /\ IF c.k > Len(c.ingredient_list)
           THEN commits' = [commits EXCEPT ![p].pc = "log"] /\ UNCHANGED Ingredients
           ELSE IF Short(Ingredients[c.ingredient_list[c.k].id].inventory_qty,
                         c.ingredient_list[c.k].quantity)
           THEN commits' = [commits EXCEPT ![p].pc = "done"] /\ UNCHANGED Ingredients
           ELSE /\ Ingredients' = update_inventory_qty(Ingredients,
                                      c.ingredient_list[c.k].id,
                                      RNeg(c.ingredient_list[c.k].quantity)).tbl
                /\ commits' = [commits EXCEPT ![p].k = @ + 1]
        /\ UNCHANGED <<Recipes, Recipe_Details, Batch_Log, gui, costing, call, ret>>

\* lines 127-131: one turn of the update loop, db.update_inventory_qty of
\* item k with its own commit
RaceUpdate(p) ==
    LET c == commits[p]
    IN  /\ c.pc = "update"
        /\ IF c.k > Len(c.ingredient_list)
           THEN commits' = [commits EXCEPT ![p].pc = "log"] /\ UNCHANGED Ingredients
           ELSE /\ Ingredients' = update_inventory_qty(Ingredients,
                                      c.ingredient_list[c.k].id,
                                      RNeg(c.ingredient_list[c.k].quantity)).tbl
                /\ commits' = [commits EXCEPT ![p].k = @ + 1]
        /\ UNCHANGED <<Recipes, Recipe_Details, Batch_Log, gui, costing, call, ret>>

\* lines 133-138: db.log_batch and the successful return
RaceLog(p) ==
    LET c == commits[p]
    IN  /\ c.pc = "log"
        /\ Batch_Log' = log_batch(Batch_Log, c.recipe_name, c.volume, c.final_cost).log
        /\ commits' = [commits EXCEPT ![p].pc = "done", ![p].ok = TRUE]
        /\ UNCHANGED <<Ingredients, Recipes, Recipe_Details, gui, costing, call, ret>>

NextRace ==
    \E p \in Procs :
        \/ RaceConnect(p)
        \/ RaceValidate(p)
        \/ RaceUpdate(p)
        \/ RaceLog(p)

SpecRace == InitCore /\ [][NextRace]_vars

\* what process p's list takes of ingredient i
Needed(p, i) ==
    LET at == { k \in 1..Len(commits[p].ingredient_list) :
                  commits[p].ingredient_list[k].id = i }
    IN  IF at = {} THEN Zero
        ELSE commits[p].ingredient_list[CHOOSE k \in at : TRUE].quantity

\* C22: two interleaved commits that both passed validation both run to
\* their end: whatever the interleaving, both return success, both append a
\* batch record, and each stock is left at max(0, stock - a - b), so that
\* what the two took beyond the stock is absorbed by the zero floor.
C22_InterleavedCommitsBothLog ==
    \A p, q \in Procs :
        /\ p # q
        /\ commits[p].pc = "done" /\ commits[p].validated
        /\ commits[q].pc = "done" /\ commits[q].validated
        => /\ commits[p].ok /\ commits[q].ok
           /\ Len(Batch_Log) = 2
           /\ \A i \in DOMAIN Ingredients :
                 Ingredients[i].inventory_qty =
                     SqlMax0(RAdd(SeedIngredients[i].inventory_qty,
                                  RNeg(RAdd(Needed(p, i), Needed(q, i)))))

\* both commits read the same 10 oz of Cascade Hops, each needs 8 of them,
\* both logged their batch, and the stock is 0
C22_Witness ==
    /\ commits[1].pc = "done" /\ commits[1].ok
    /\ commits[2].pc = "done" /\ commits[2].ok
    /\ commits[1].seen = commits[2].seen
    /\ Needed(1, 2) = R(8, 1) /\ Needed(2, 2) = R(8, 1)
    /\ commits[1].seen[2] = R(10, 1)
    /\ Len(Batch_Log) = 2
    /\ Ingredients[2].inventory_qty = Zero

-----------------------------------------------------------------------------
(* db.py: add_recipe (lines 139-162) *)

\* lines 151-156: the INSERTs into Recipe_Details from pair k on, in the
\* dict's order; an ingredient_id that is no row of Ingredients fails the
\* foreign key, a quantity of None the NOT NULL constraint
RECURSIVE InsertDetails(_, _, _, _, _)
InsertDetails(details, tbl, recipe_id, ingredient_details, k) ==
    IF k > Len(ingredient_details) THEN [exc |-> "none", details |-> details]
    ELSE IF \/ ingredient_details[k][1] \notin DOMAIN tbl
            \/ IsNaN(ingredient_details[k][2])
    THEN [exc |-> "sqlite3.IntegrityError", details |-> details]
    ELSE InsertDetails(details \cup { [recipe_id |-> recipe_id,
                                       ingredient_id |-> ingredient_details[k][1],
                                       quantity |-> ingredient_details[k][2]] },
                       tbl, recipe_id, ingredient_details, k + 1)

\* lines 145-149: the INSERT into Recipes; name is UNIQUE
InsertRecipe(recipes, name, volume, base_cost) ==
    IF \E r \in DOMAIN recipes : recipes[r].name = name
    THEN [exc |-> "sqlite3.IntegrityError", recipes |-> recipes, lastrowid |-> 0]
    ELSE [exc |-> "none",
          recipes |-> [r \in DOMAIN recipes \cup { NextId(DOMAIN recipes) } |->
                          IF r \in DOMAIN recipes THEN recipes[r]
                          ELSE [name |-> name, target_volume_BBL |-> volume,
                                base_cost |-> base_cost]],
          lastrowid |-> NextId(DOMAIN recipes)]

\* mutant: no rollback, the rows inserted before the failure stay
add_recipe_NoRollback(recipes, details, tbl, name, volume, base_cost, ingredient_details) ==
    LET r == InsertRecipe(recipes, name, volume, base_cost)
        d == InsertDetails(details, tbl, r.lastrowid, ingredient_details, 1)
    IN  IF r.exc # "none"
        THEN [exc |-> r.exc, recipe_id |-> 0, recipes |-> recipes, details |-> details]
        ELSE [exc |-> d.exc, recipe_id |-> IF d.exc = "none" THEN r.lastrowid ELSE 0,
              recipes |-> r.recipes, details |-> d.details]

\* lines 139-162: both inserts in one transaction, committed at the end or
\* rolled back and the error raised again
add_recipe(recipes, details, tbl, name, volume, base_cost, ingredient_details) ==
    LET r == InsertRecipe(recipes, name, volume, base_cost)
        d == InsertDetails(details, tbl, r.lastrowid, ingredient_details, 1)
    IN  IF r.exc # "none"
        THEN [exc |-> r.exc, recipe_id |-> 0, recipes |-> recipes, details |-> details]
        ELSE IF d.exc # "none"
        THEN [exc |-> d.exc, recipe_id |-> 0, recipes |-> recipes, details |-> details]
        ELSE [exc |-> "none", recipe_id |-> r.lastrowid,
              recipes |-> r.recipes, details |-> d.details]

RecipeNames == { "American Lager", "Pale Ale", "Brown Ale" }
DetailIds == DOMAIN SeedIngredients \cup { MissingId(SeedIngredients) }
DetailQtys == { R(1, 1), NaN }
DetailLists ==
    UNION { { [k \in 1..n |-> <<ids[k], qs[k]>>] :
                ids \in { s \in [1..n -> DetailIds] : IsInjective(s) },
                qs \in [1..n -> DetailQtys] } :
            n \in 0..MaxItems }

CallAddRecipe ==
    \E name \in RecipeNames, ingredient_details \in DetailLists :
      \E a \in { add_recipe(Recipes, Recipe_Details, Ingredients, name, R(15, 1),
                            R(1, 1), ingredient_details) } :
        /\ Recipes' = a.recipes
        /\ Recipe_Details' = a.details
        /\ call' = [op |-> "add_recipe",
                    args |-> <<name, R(15, 1), R(1, 1), ingredient_details>>,
                    pre |-> [tbl |-> Ingredients, log |-> Batch_Log,
                             recipes |-> Recipes, details |-> Recipe_Details]]
        /\ ret' = [exc |-> a.exc, recipe_id |-> a.recipe_id]
        /\ UNCHANGED <<Ingredients, Batch_Log, gui, commits, costing>>

NextRecipes == CallAddRecipe

SpecRecipes == InitCore /\ [][NextRecipes]_vars

IsAddRecipe == call.op = "add_recipe"
AddRecipeName == call.args[1]
AddRecipeDetails == call.args[4]
AddRecipeFails ==
    \/ \E r \in DOMAIN call.pre.recipes : call.pre.recipes[r].name = AddRecipeName
    \/ \E k \in 1..Len(AddRecipeDetails) :
          \/ AddRecipeDetails[k][1] \notin DOMAIN Ingredients
          \/ IsNaN(AddRecipeDetails[k][2])

\* C23: add_recipe either inserts the recipe row together with one
\* composition row per pair of its argument, or, when an insert fails (the
\* name exists, a pair names a missing ingredient or has no quantity),
\* raises the error and leaves Recipes and Recipe_Details as they were.
C23_AddRecipeIsTransactional ==
    IsAddRecipe =>
        IF AddRecipeFails
        THEN /\ ret.exc = "sqlite3.IntegrityError"
             /\ Recipes = call.pre.recipes
             /\ Recipe_Details = call.pre.details
        ELSE /\ ret.exc = "none"
             /\ DOMAIN Recipes = DOMAIN call.pre.recipes \cup { ret.recipe_id }
             /\ ret.recipe_id \notin DOMAIN call.pre.recipes
             /\ \A r \in DOMAIN call.pre.recipes : Recipes[r] = call.pre.recipes[r]
             /\ Recipes[ret.recipe_id] = [name |-> AddRecipeName, target_volume_BBL |-> call.args[2], base_cost |-> call.args[3]]
             /\ Recipe_Details = call.pre.details \cup
                   { [recipe_id |-> ret.recipe_id,
                      ingredient_id |-> AddRecipeDetails[k][1],
                      quantity |-> AddRecipeDetails[k][2]] :
                     k \in 1..Len(AddRecipeDetails) }

\* a new recipe whose second composition row names a missing ingredient:
\* the recipe row and the first composition row had been inserted, the
\* error was raised and neither exists
C23_Witness ==
    /\ IsAddRecipe /\ AddRecipeName = "Pale Ale"
    /\ Len(AddRecipeDetails) = 2
    /\ AddRecipeDetails[1][1] \in DOMAIN Ingredients /\ ~IsNaN(AddRecipeDetails[1][2])
    /\ AddRecipeDetails[2][1] \notin DOMAIN Ingredients
    /\ ret.exc = "sqlite3.IntegrityError"
    /\ \A r \in DOMAIN Recipes : Recipes[r].name # "Pale Ale"
    /\ \E r \in DOMAIN Recipes : Recipes[r].name = "Brown Ale"

-----------------------------------------------------------------------------
(* Claims about what the window hands to the commit (Spec) *)

\* the list scale_recipe gives for recipe r at volume v over the tables the
\* commit found
ScaledAt(r, v) == scale_recipe(call.pre.tbl, Recipe_Details, r, Recipes[r].target_volume_BBL, v, 0).items

\* C24: the volume of a logged batch is the target volume that gives the
\* scaled ingredient list the commit deducted from stock.
C24_LoggedVolumeIsScaledVolume ==
    Logged => \E r \in DOMAIN Recipes : CommitList = ScaledAt(r, CommitVolume)

\* the numbers a volume text can stand for
TypedVolumes == { float(t).val : t \in { u \in VolumeTexts : float(u).exc = "none" } }
Named(name) == { r \in DOMAIN Recipes : Recipes[r].name = name }
ScaledFrom(tbl, r, v) == scale_recipe(tbl, Recipe_Details, r, Recipes[r].target_volume_BBL, v, 0).items

\* the stored list was not computed from the recipe the menu shows
Mismatch ==
    /\ scaled_ingredients.set
    /\ \A r \in Named(recipe_var), v \in TypedVolumes :
          scaled_ingredients.items # ScaledFrom(Ingredients, r, v)

\* C25: the recipe name of a logged batch names the recipe whose
\* composition gave the deducted list; while the menu shows another recipe
\* than the one the stored list was scaled from, the cost label is the
\* reset one; and with the reset label no step calls the commit or
\* changes the log.
C25_LoggedNameIsScaledRecipe ==
    /\ [](Logged => \E r \in Named(CommitName), v \in TypedVolumes :
                       CommitList = ScaledFrom(call.pre.tbl, r, v))
    /\ [](Mismatch => output_cost_var = NoCost)
    /\ [][output_cost_var = NoCost
            => Batch_Log' = Batch_Log /\ call'.op # "calculate_and_log_batch"]_vars

\* American Lager was scaled and logged, then Imperial Stout-Nitro selected:
\* the stored list is still the lager's and the label is reset
C25_Witness ==
    /\ Len(Batch_Log) = 1 /\ Batch_Log[1].recipe_name = "American Lager"
    /\ recipe_var = "Imperial Stout-Nitro"
    /\ scaled_ingredients.set
    /\ scaled_ingredients.items = ScaledFrom(Ingredients, 1, R(15, 2))
    /\ Mismatch
    /\ output_cost_var = NoCost

-----------------------------------------------------------------------------
(* services.py lines 71-101 frame by frame: each call of                   *)
(* calculate_recipe_cost is a frame on the interpreter's stack, which      *)
(* holds at most RecursionLimit frames.                                    *)

\* CPython's default sys.getrecursionlimit(); the source never sets it
RecursionLimit == 1000
\* frames db.connect_db() needs below the frame that calls it (line 87:
\* connect_db, sqlite3.connect and what it calls; 4 on CPython 3.11)
ConnectFrames == 4
\* depth of the frame that calls calculate_recipe_cost: a script's module
\* level, a Tk callback
CallerDepths == { 1, 5 }
LongLengths == { 990, 995 }
\* an argument list, written as a short list and the number of times it is
\* repeated (a list of 995 items is 995 times a one-item list)
Repeated(base, times) == [base |-> base, times |-> times]
ListLen(l) == Len(l.base) * l.times
ListItem(l, k) == l.base[((k - 1) % Len(l.base)) + 1]
LongList(n) == Repeated(<<[id |-> 1, name |-> SeedIngredients[1].name, quantity |-> R(1, 1), unit |-> SeedIngredients[1].unit]>>, n)
CostingLists == { Repeated(l, 1) : l \in ItemLists(Ingredients) } \cup { LongList(n) : n \in LongLengths }
StackFull(frames) == frames >= RecursionLimit

\* the call from outside: the first frame
CostingCall ==
    /\ costing.pc = "idle"
    /\ \E ingredient_list \in CostingLists, caller \in CallerDepths :
         costing' = [pc |-> "descend", ingredient_list |-> ingredient_list,
                     caller |-> caller, depth |-> 1, lookups |-> 0,
                     value |-> Zero, exc |-> "none"]
    /\ UNCHANGED <<db, gui, commits, call, ret>>

\* lines 78-98 and the call of line 101 in the frame at the top, whose list
\* is the argument from item depth on: the base case returns 0.0; otherwise
\* connect, SELECT cost of the head, close, and call with the tail.  A call
\* the stack has no room for raises RecursionError through every frame.
CostingDescend ==
    /\ costing.pc = "descend"
    /\ IF costing.depth > ListLen(costing.ingredient_list)
       THEN costing' = [costing EXCEPT
                           !.pc = IF costing.depth = 1 THEN "done" ELSE "unwind",
                           !.depth = @ - 1, !.value = Zero]
       ELSE IF StackFull(costing.caller + costing.depth + ConnectFrames)
       THEN costing' = [costing EXCEPT !.pc = "done", !.depth = 0,
                                       !.exc = "RecursionError"]
       ELSE costing' = [costing EXCEPT !.lookups = @ + 1, !.depth = @ + 1]
    /\ UNCHANGED <<db, gui, commits, call, ret>>

\* line 101 after the inner call returned: current_cost plus its value,
\* returned to the frame below (current_cost is the product computed at
\* line 98; no unit cost changes while the call runs)
CostingReturn ==
    /\ costing.pc = "unwind"
    /\ LET head == ListItem(costing.ingredient_list, costing.depth)
       IN  costing' = [costing EXCEPT
                          !.value = RAdd(CurrentCost(Ingredients[head.id].cost, head.quantity), @),
                          !.depth = @ - 1,
                          !.pc = IF costing.depth = 1 THEN "done" ELSE "unwind"]
    /\ UNCHANGED <<db, gui, commits, call, ret>>

NextCosting ==
    \/ CostingCall
    \/ CostingDescend
    \/ CostingReturn

SpecCosting == InitCore /\ [][NextCosting]_vars

\* C26: for every item list whose ingredients exist, the call ends having
\* reached the empty-list base case, with one unit-cost lookup per item and
\* no exception.
C26_CostingReachesBaseCase ==
    costing.pc = "done"
        => /\ costing.exc = "none"
           /\ costing.lookups = ListLen(costing.ingredient_list)

=============================================================================
